---- MODULE Spec2Model ----
(***************************************************************************)
(* PixelNimbus: the request-authorization middleware (the Access Gate) in  *)
(* each of its revisions, and the route handlers behind it: video         *)
(* listing, video and image upload, video delete.                          *)
(*                                                                         *)
(* A path is the sequence of its characters, so that                       *)
(* pathname.startsWith("/api") is a real prefix test.  A route matcher     *)
(* built by createRouteMatcher from literal patterns (no wildcard) accepts *)
(* exactly the listed pathnames.                                           *)
(***************************************************************************)
EXTENDS Naturals, Sequences, FiniteSets, TLC

VARIABLES rev, lrev, urev, videos, req, users, host, stream, card, share

vars == <<rev, lrev, urev, videos, req, users, host, stream, card, share>>

(* ------------------------------------------------------------------ *)
(* Bounds                                                               *)
(* ------------------------------------------------------------------ *)

\* number of requests that can be in flight together
MaxReq == 2

Reqs == 1..MaxReq

(* ------------------------------------------------------------------ *)
(* Paths                                                                *)
(* ------------------------------------------------------------------ *)

Root == <<"/">>
Home == <<"/", "h", "o", "m", "e">>
SignIn == <<"/", "s", "i", "g", "n", "-", "i", "n">>
SignUp == <<"/", "s", "i", "g", "n", "-", "u", "p">>
SocialShare == <<"/", "s", "o", "c", "i", "a", "l", "-", "s", "h", "a", "r", "e">>
ApiVideos == <<"/", "a", "p", "i", "/", "v", "i", "d", "e", "o", "s">>
ApiVideoUpload ==
    <<"/", "a", "p", "i", "/", "v", "i", "d", "e", "o", "-", "u", "p", "l", "o", "a", "d">>
Apiary == <<"/", "a", "p", "i", "a", "r", "y">>
ApiPrefix == <<"/", "a", "p", "i">>

\* the pathnames requests are drawn from
Paths ==
    {Root, Home, SignIn, SignUp, SocialShare, ApiVideos, ApiVideoUpload, Apiary}

\* String.prototype.startsWith
StartsWith(s, p) == Len(s) >= Len(p) /\ SubSeq(s, 1, Len(p)) = p

\* createRouteMatcher(patterns)(req), for literal patterns
RouteMatches(patterns, path) == path \in patterns

\* mutant: the page matcher without "/home"
isPublicPage_NoHome(path) == RouteMatches({Root, SignIn, SignUp}, path)

\* mutant: the page matcher without "/sign-in"
isPublicPage_NoSignIn(path) == RouteMatches({Root, Home, SignUp}, path)

\* createRouteMatcher(["/", "/home", "/sign-in", "/sign-up"])
isPublicPage(path) == RouteMatches({Root, Home, SignIn, SignUp}, path)

\* createRouteMatcher(["/api/videos"])
isPublicApi(path) == RouteMatches({ApiVideos}, path)

\* mutant: the route matcher without "/home"
isPublicRoute_NoHome(path) == RouteMatches({SignIn, SignUp, Root}, path)

\* createRouteMatcher(["/sign-in", "/sign-up", "/", "/home"])
isPublicRoute(path) == RouteMatches({SignIn, SignUp, Root, Home}, path)

\* createRouteMatcher(["/api/videos"])
isPublicApiRoute(path) == RouteMatches({ApiVideos}, path)

(* ------------------------------------------------------------------ *)
(* Identity                                                             *)
(* ------------------------------------------------------------------ *)

\* auth() yields no userId: the caller has no session
NoUser == "none"

\* Clerk user ids a session can carry
ClerkIds == {"clerk_a", "clerk_b", "clerk_c"}

Sessions == {NoUser} \cup ClerkIds

(* ------------------------------------------------------------------ *)
(* Outcomes of the gate                                                 *)
(* ------------------------------------------------------------------ *)

\* NextResponse.next()
PassThrough == [kind |-> "next", location |-> <<>>, status |-> 0, error |-> ""]

\* NextResponse.redirect(new URL("/home", req.url))
RedirectHome == [kind |-> "redirect", location |-> Home, status |-> 307, error |-> ""]

\* NextResponse.redirect(new URL("/sign-in", req.url))
RedirectSignIn == [kind |-> "redirect", location |-> SignIn, status |-> 307, error |-> ""]

\* new NextResponse(JSON.stringify({ error: "Unauthorized" }), { status: 401 })
Json401 == [kind |-> "json", location |-> <<>>, status |-> 401, error |-> "Unauthorized"]

\* a callback that ends without a return statement
NoResponse == [kind |-> "undefined", location |-> <<>>, status |-> 0, error |-> ""]

(* ------------------------------------------------------------------ *)
(* The gate, revision by revision.  userId is what auth() resolved to. *)
(* ------------------------------------------------------------------ *)

\* mutant: unauthenticated page requests are no longer redirected
MiddlewareRev1_NoPageRedirect(path, userId) ==
    LET isApi == StartsWith(path, ApiPrefix) IN
    IF path = Root THEN RedirectHome
    ELSE IF userId = NoUser /\ isApi /\ ~isPublicApi(path) THEN Json401
    ELSE PassThrough

\* mutant: the rules for unauthenticated callers apply to every caller
MiddlewareRev1_IgnoresUserId(path, userId) ==
    LET isApi == StartsWith(path, ApiPrefix) IN
    IF path = Root THEN RedirectHome
    ELSE IF ~isApi /\ ~isPublicPage(path) THEN RedirectSignIn
    ELSE IF isApi /\ ~isPublicApi(path) THEN Json401
    ELSE PassThrough

\* mutant: the root redirect only for signed-in callers
MiddlewareRev1_RootIfSignedIn(path, userId) ==
    LET isApi == StartsWith(path, ApiPrefix) IN
    IF userId # NoUser /\ path = Root THEN RedirectHome
    ELSE IF userId = NoUser /\ ~isApi /\ ~isPublicPage(path) THEN RedirectSignIn
    ELSE IF userId = NoUser /\ isApi /\ ~isPublicApi(path) THEN Json401
    ELSE PassThrough

\* mutant: the final return NextResponse.next() is missing
MiddlewareRev1_NoFinalReturn(path, userId) ==
    LET isApi == StartsWith(path, ApiPrefix) IN
    IF path = Root THEN RedirectHome
    ELSE IF userId = NoUser /\ ~isApi /\ ~isPublicPage(path) THEN RedirectSignIn
    ELSE IF userId = NoUser /\ isApi /\ ~isPublicApi(path) THEN Json401
    ELSE NoResponse

\* src/middleware.ts, first revision
MiddlewareRev1(path, userId) ==
    LET isApi == StartsWith(path, ApiPrefix) IN
    IF path = Root THEN RedirectHome
    ELSE IF userId = NoUser /\ ~isApi /\ ~isPublicPage(path) THEN RedirectSignIn
    ELSE IF userId = NoUser /\ isApi /\ ~isPublicApi(path) THEN Json401
    ELSE PassThrough

\* src/middleware.ts, second revision
MiddlewareRev2(path, userId) ==
    LET isAccessingDashboard == path = Home
        isLandingPage == path = Root
        isApiRequest == StartsWith(path, ApiPrefix)
    IN
    IF userId # NoUser /\ isPublicRoute(path) /\ ~isAccessingDashboard /\ ~isLandingPage
    THEN RedirectHome
    ELSE IF userId = NoUser /\ ~isPublicRoute(path) /\ ~isPublicApiRoute(path)
    THEN RedirectSignIn
    ELSE IF userId = NoUser /\ isApiRequest /\ ~isPublicApiRoute(path)
    THEN RedirectSignIn
    ELSE PassThrough

\* src/unnamed/part_000: no public API matcher
MiddlewarePart000(path, userId) ==
    LET isApi == StartsWith(path, ApiPrefix) IN
    IF userId # NoUser /\ path = Root THEN RedirectHome
    ELSE IF userId = NoUser /\ ~isApi /\ ~isPublicPage(path) THEN RedirectSignIn
    ELSE IF userId = NoUser /\ isApi THEN Json401
    ELSE PassThrough

\* src/unnamed/part_001
MiddlewarePart001(path, userId) ==
    LET isAccessingDashboard == path = Home
        isApiRequest == StartsWith(path, ApiPrefix)
    IN
    IF userId # NoUser /\ isPublicRoute(path) /\ ~isAccessingDashboard
    THEN RedirectHome
    ELSE IF userId = NoUser /\ ~isPublicRoute(path) /\ ~isPublicApiRoute(path)
    THEN RedirectSignIn
    ELSE IF userId = NoUser /\ isApiRequest /\ ~isPublicApiRoute(path)
    THEN RedirectSignIn
    ELSE PassThrough

\* src/unnamed/part_002
MiddlewarePart002(path, userId) ==
    LET isApi == StartsWith(path, ApiPrefix) IN
    IF userId # NoUser /\ isPublicApi(path) THEN RedirectHome
    ELSE IF userId = NoUser /\ ~isApi /\ ~isPublicPage(path) THEN RedirectSignIn
    ELSE IF userId = NoUser /\ isApi /\ ~isPublicApi(path) THEN RedirectSignIn
    ELSE PassThrough

\* the revisions of the gate found in the repository
GateRevs == {"middleware_1", "middleware_2", "part_000", "part_001", "part_002"}

\* the default export of the deployed revision
Gate(r, path, userId) ==
    CASE r = "middleware_1" -> MiddlewareRev1(path, userId)
      [] r = "middleware_2" -> MiddlewareRev2(path, userId)
      [] r = "part_000" -> MiddlewarePart000(path, userId)
      [] r = "part_001" -> MiddlewarePart001(path, userId)
      [] r = "part_002" -> MiddlewarePart002(path, userId)

(* ------------------------------------------------------------------ *)
(* Database                                                             *)
(* ------------------------------------------------------------------ *)

\* model User at start: clerkId (unique) -> id.  clerk_c has no application
\* user row yet.
Users == [clerk_a |-> "user_a", clerk_b |-> "user_b"]

\* model Video rows the database can hold: id, owner, creation time
SampleVideos ==
    { [id |-> "v1", userId |-> "user_a", createdAt |-> 1],
      [id |-> "v2", userId |-> "user_b", createdAt |-> 2],
      [id |-> "v3", userId |-> "user_a", createdAt |-> 3] }

\* the row created last
Newest(rows) == CHOOSE v \in rows : \A w \in rows : w.createdAt <= v.createdAt

\* orderBy: { createdAt: "desc" }
RECURSIVE OrderByCreatedAtDesc(_)
OrderByCreatedAtDesc(rows) ==
    IF rows = {} THEN <<>>
    ELSE <<Newest(rows)>> \o OrderByCreatedAtDesc(rows \ {Newest(rows)})

(* ------------------------------------------------------------------ *)
(* GET /api/videos                                                      *)
(* ------------------------------------------------------------------ *)

\* which database call of a handler run throws, if any
Faults == {"none", "findUnique", "findMany"}

\* NextResponse.json(body, { status })
JsonResponse(st, err, list) == [status |-> st, error |-> err, body |-> list]

\* no response yet
NoBody == [status |-> 0, error |-> "", body |-> <<>>]

\* src/app/api/videos/route.ts GET: the caller's own videos
ListVideosRoute(clerkId, rows, fault) ==
    IF clerkId = NoUser THEN JsonResponse(401, "Unauthorized", <<>>)
    ELSE IF fault = "findUnique" THEN JsonResponse(500, "Error fetching videos", <<>>)
    ELSE IF clerkId \notin DOMAIN users THEN JsonResponse(404, "User not found", <<>>)
    ELSE IF fault = "findMany" THEN JsonResponse(500, "Error fetching videos", <<>>)
    ELSE JsonResponse(200, "",
             OrderByCreatedAtDesc({v \in rows : v.userId = users[clerkId]}))

\* src/unnamed/part_007 GET: every video, no identity lookup
ListVideosPart007(clerkId, rows, fault) ==
    IF fault = "findMany" THEN JsonResponse(500, "Error fetching videos", <<>>)
    ELSE JsonResponse(200, "", OrderByCreatedAtDesc(rows))

\* the revisions of the listing handler found in the repository
ListRevs == {"videos_route", "part_007"}

\* the GET export of the deployed revision
ListVideos(r, clerkId, rows, fault) ==
    CASE r = "videos_route" -> ListVideosRoute(clerkId, rows, fault)
      [] r = "part_007" -> ListVideosPart007(clerkId, rows, fault)

(* ------------------------------------------------------------------ *)
(* State outside the request pipeline: the chunked upload stream of     *)
(* src/unnamed/part_006, the VideoCard components, the SocialShare page *)
(* ------------------------------------------------------------------ *)

\* no upload stream is open
StreamIdle ==
    [pc |-> "idle", size |-> 0, offset |-> 0, writes |-> <<>>, ends |-> 0,
     quality |-> "", eager |-> <<>>, eagerAsync |-> FALSE, applied |-> FALSE]

\* the revisions of VideoCard.handleDelete found in the repository
CardRevs == {"VideoCard_tsx", "part_003"}

\* the videos that have a card on the page
CardIds == {"v1", "v2", "v3"}

\* a card at rest: useState(false) and nothing reported
CardIdle ==
    [pc |-> "idle", isDeleting |-> FALSE, answer |-> "none", removed |-> FALSE,
     refreshed |-> FALSE, alerted |-> FALSE]

\* the keys of socialFormats
SocialFormats ==
    {"Instagram Square (1:1)", "Instagram Portrait (4:5)", "Twitter Post (16:9)",
     "Twitter Header (3:1)", "Facebook Cover (205:78)"}

\* SocialShare after its first render
\* uploadedImage is the number of the upload that produced it, 0 for null;
\* transformedUrl is the image and format it was generated from; img is the
\* load state of the transformed <Image>
ShareIdle ==
    [uploadedImage |-> 0, selectedFormat |-> "Instagram Square (1:1)",
     isUploading |-> FALSE, isTransforming |-> FALSE,
     transformedUrl |-> [image |-> 0, format |-> ""],
     img |-> "none"]

\* the client-side state before anything happened
ClientIdle ==
    /\ stream = StreamIdle
    /\ card = [crev |-> "part_003", cards |-> [id \in CardIds |-> CardIdle]]
    /\ share = ShareIdle

(* ------------------------------------------------------------------ *)
(* Requests                                                             *)
(* ------------------------------------------------------------------ *)

\* a free request slot
Idle == [pc |-> "idle", method |-> "GET", path |-> <<>>, session |-> NoUser,
         emitted |-> <<>>, fault |-> "none", response |-> NoBody,
         settled |-> <<>>, redirects |-> 0, payload |-> "none"]

Init ==
    /\ rev \in GateRevs
    /\ lrev \in ListRevs
    /\ urev = "video_upload_route"
    /\ videos \in {{}, SampleVideos}
    /\ req = [r \in Reqs |-> Idle]
    /\ users = Users
    /\ host = {}
    /\ ClientIdle

\* mutant: the callback answers as for an unauthenticated caller before it
\* awaits auth()
Arrive_DecidesBeforeAuth(r) ==
    /\ req[r].pc = "idle"
    /\ \E path \in Paths, session \in Sessions :
          req' = [req EXCEPT ![r] = [Idle EXCEPT !.pc = "auth", !.path = path,
                                                 !.session = session,
                                                 !.emitted = <<Gate(rev, path, NoUser)>>]]
    /\ UNCHANGED <<stream, card, share, rev, lrev, urev, videos, users, host>>

\* the framework invokes the gate; it runs up to `await auth()`
Arrive(r) ==
    /\ req[r].pc = "idle"
    /\ \E path \in Paths, session \in Sessions :
          req' = [req EXCEPT ![r] = [Idle EXCEPT !.pc = "auth", !.path = path,
                                                 !.session = session]]
    /\ UNCHANGED <<stream, card, share, rev, lrev, urev, videos, users, host>>

\* mutant: userId kept in a module-level variable that any request in flight
\* may have written last
AuthResolved_SharedUserId(r) ==
    /\ req[r].pc = "auth"
    /\ \E q \in Reqs :
          /\ req[q].pc # "idle"
          /\ req' = [req EXCEPT ![r].pc = "gated",
                                ![r].emitted =
                                    Append(@, Gate(rev, req[r].path, req[q].session))]
    /\ UNCHANGED <<stream, card, share, rev, lrev, urev, videos, users, host>>

\* auth() resolves and the rest of the callback runs to its return
AuthResolved(r) ==
    /\ req[r].pc = "auth"
    /\ LET userId == req[r].session IN
       req' = [req EXCEPT ![r].pc = "gated",
                          ![r].emitted = Append(@, Gate(rev, req[r].path, userId))]
    /\ UNCHANGED <<stream, card, share, rev, lrev, urev, videos, users, host>>

\* the gate let the request through to a route handler
Passed(r) == req[r].pc = "gated" /\ req[r].emitted = <<PassThrough>>

\* the listing handler answers a request the gate passed through
HandleListVideos(r) ==
    /\ Passed(r)
    /\ req[r].path = ApiVideos
    /\ \E fault \in Faults :
          req' = [req EXCEPT ![r].pc = "handled",
                             ![r].fault = fault,
                             ![r].response =
                                 ListVideos(lrev, req[r].session, videos, fault)]
    /\ UNCHANGED <<stream, card, share, rev, lrev, urev, videos, users, host>>

\* the response is delivered and the slot is free again
Finish(r) ==
    /\ \/ req[r].pc = "handled"
       \/ req[r].pc = "gated" /\ ~(Passed(r) /\ req[r].path = ApiVideos)
    /\ req' = [req EXCEPT ![r] = Idle]
    /\ UNCHANGED <<stream, card, share, rev, lrev, urev, videos, users, host>>

Next ==
    \E r \in Reqs :
        \/ Arrive(r)
        \/ AuthResolved(r)
        \/ HandleListVideos(r)
        \/ Finish(r)

Spec == Init /\ [][Next]_vars

\* one deployment of the handlers and the database, every revision of the gate:
\* the gate reads neither
InitGate == Init /\ lrev = "videos_route" /\ videos = SampleVideos

SpecGate == InitGate /\ [][Next]_vars

(* ------------------------------------------------------------------ *)
(* Properties                                                           *)
(* ------------------------------------------------------------------ *)

\* the gate has answered request r
Decided(r) == req[r].pc \in {"gated", "handled"}

\* the gate's answer to request r
Outcome(r) == req[r].emitted[1]

\* the path classes as the specification lists them
PublicPages == {Root, Home, SignIn, SignUp}
PublicApiPaths == {ApiVideos}
UnderApi(path) == StartsWith(path, ApiPrefix)
Authenticated(r) == req[r].session # NoUser

\* C1 (as claimed): every unauthenticated request to a non-public path under
\* /api is answered 401 {"error": "Unauthorized"}, never redirected or passed.
C1_UnauthApiGets401 ==
    \A r \in Reqs :
        (Decided(r) /\ ~Authenticated(r) /\ UnderApi(req[r].path)
                    /\ req[r].path \notin PublicApiPaths)
        => Outcome(r) = Json401

\* C2: every unauthenticated request to a path outside /api that is neither a
\* public page nor a public API path is redirected to /sign-in.
C2_UnauthPageRedirectsToSignIn ==
    \A r \in Reqs :
        (Decided(r) /\ ~Authenticated(r) /\ ~UnderApi(req[r].path)
                    /\ req[r].path \notin PublicPages \cup PublicApiPaths)
        => Outcome(r) = RedirectSignIn

C2_Witness ==
    \E r \in Reqs :
        /\ Decided(r) /\ ~Authenticated(r) /\ req[r].path = SocialShare
        /\ Outcome(r) = RedirectSignIn

\* C3: every authenticated request to a protected path (neither a public page
\* nor a public API path) is passed through: no redirect, no 401.
C3_AuthProtectedPasses ==
    \A r \in Reqs :
        (Decided(r) /\ Authenticated(r)
                    /\ req[r].path \notin PublicPages \cup PublicApiPaths)
        => Outcome(r) = PassThrough

C3_Witness ==
    \E r \in Reqs :
        /\ Decided(r) /\ Authenticated(r) /\ req[r].path = ApiVideoUpload
        /\ Outcome(r) = PassThrough

C5_AuthSignInRedirectsHome ==
    \A r \in Reqs :
        (Decided(r) /\ Authenticated(r) /\ req[r].path \in {SignIn, SignUp})
        => Outcome(r) = RedirectHome

\* C6 (as claimed): every request to / is redirected to /home, whoever calls.
C6_RootAlwaysRedirectsHome ==
    \A r \in Reqs :
        (Decided(r) /\ req[r].path = Root) => Outcome(r) = RedirectHome

\* C6 (amended): each revision handles / by one rule.  The first revision of
\* src/middleware.ts redirects every caller to /home; part_000 and part_001
\* redirect only authenticated callers and pass the others through; the second
\* revision of src/middleware.ts and part_002 pass every caller through.
C6_RootRulePerRevision ==
    \A r \in Reqs :
        (Decided(r) /\ req[r].path = Root)
        => Outcome(r) =
             CASE rev = "middleware_1" -> RedirectHome
               [] rev \in {"part_000", "part_001"} ->
                     IF Authenticated(r) THEN RedirectHome ELSE PassThrough
               [] rev \in {"middleware_2", "part_002"} -> PassThrough

C6_Witness ==
    \E r \in Reqs :
        /\ rev = "middleware_1"
        /\ Decided(r) /\ ~Authenticated(r) /\ req[r].path = Root
        /\ Outcome(r) = RedirectHome

\* C7 (as claimed): an unauthenticated GET /home is redirected to /sign-in.
C7_UnauthHomeRedirectsToSignIn ==
    \A r \in Reqs :
        (Decided(r) /\ ~Authenticated(r) /\ req[r].path = Home)
        => Outcome(r) = RedirectSignIn

\* C7 (amended): an unauthenticated GET /home is passed through.
C7_UnauthHomePasses ==
    \A r \in Reqs :
        (Decided(r) /\ ~Authenticated(r) /\ req[r].path = Home)
        => Outcome(r) = PassThrough

C7_Witness ==
    \E r \in Reqs :
        /\ Decided(r) /\ ~Authenticated(r) /\ req[r].path = Home
        /\ Outcome(r) = PassThrough /\ rev = "middleware_2"

\* C8 (as claimed): an unauthenticated GET /api/videos is passed through by
\* the gate, neither redirected nor answered 401.
C8_UnauthApiVideosPasses ==
    \A r \in Reqs :
        (Decided(r) /\ ~Authenticated(r) /\ req[r].path = ApiVideos)
        => Outcome(r) = PassThrough

\* C9 (as claimed): an unauthenticated GET /api/videos that the gate passed
\* through is answered by the listing handler with the video list and status
\* 200 (no database call failing), not with an authorization error.
C9_UnauthListingReturnsData ==
    \A r \in Reqs :
        (req[r].pc = "handled" /\ ~Authenticated(r) /\ req[r].path = ApiVideos
                               /\ req[r].fault = "none")
        => /\ req[r].response.status = 200
           /\ req[r].response.error = ""

\* the closed set of outcomes
GateOutcomes == {PassThrough, RedirectHome, RedirectSignIn, Json401}

\* C10: every request context leaves the gate with exactly one outcome, and
\* that outcome is pass-through, redirect to /home, redirect to /sign-in or
\* the 401 JSON; a request waiting for auth() has none yet and can always
\* go on to get one.
C10_ExactlyOneOutcome ==
    \A r \in Reqs :
        /\ req[r].pc = "auth" => (req[r].emitted = <<>> /\ ENABLED AuthResolved(r))
        /\ Decided(r) => (Len(req[r].emitted) = 1 /\ Outcome(r) \in GateOutcomes)

C10_Witness ==
    \E r \in Reqs :
        /\ Decided(r) /\ Len(req[r].emitted) = 1 /\ Outcome(r) = Json401

\* the decision procedure of the specification, rules in order, first match wins
DecisionProcedure(path, authenticated) ==
    IF path = Root THEN RedirectHome
    ELSE IF authenticated /\ path \in {SignIn, SignUp} THEN RedirectHome
    ELSE IF ~authenticated /\ path \notin PublicPages \cup PublicApiPaths
    THEN RedirectSignIn
    ELSE IF ~authenticated /\ UnderApi(path) /\ path \notin PublicApiPaths
    THEN Json401
    ELSE PassThrough

\* C11 (as claimed): for every path and authentication state, each gate of
\* src/middleware.ts returns the outcome of the decision procedure.
C11_GateFollowsProcedure ==
    \A r \in Reqs :
        (Decided(r) /\ rev \in {"middleware_1", "middleware_2"})
        => Outcome(r) = DecisionProcedure(req[r].path, Authenticated(r))

(* ------------------------------------------------------------------ *)
(* The gate when the identity collaborator fails                        *)
(* ------------------------------------------------------------------ *)

\* auth() rejects: `await auth()` throws inside the callback, which has no
\* try/catch in any revision, so the callback's promise rejects without a
\* response
AuthRejected(r) ==
    /\ req[r].pc = "auth"
    /\ req' = [req EXCEPT ![r].pc = "failed"]
    /\ UNCHANGED <<stream, card, share, rev, lrev, urev, videos, users, host>>

\* the framework reports the callback's error and the slot is free again
Abort(r) ==
    /\ req[r].pc = "failed"
    /\ req' = [req EXCEPT ![r] = Idle]
    /\ UNCHANGED <<stream, card, share, rev, lrev, urev, videos, users, host>>

NextAuth ==
    \E r \in Reqs :
        \/ Arrive(r)
        \/ AuthResolved(r)
        \/ AuthRejected(r)
        \/ HandleListVideos(r)
        \/ Finish(r)
        \/ Abort(r)

SpecAuth == InitGate /\ [][NextAuth]_vars

\* C12 (as claimed): when resolving the authentication state fails (auth()
\* rejects, or yields no user id) the gate treats the caller as
\* unauthenticated and still produces one of its four outcomes; the failure
\* never leaves the gate as an error.
C12_AuthFailureMeansUnauthenticated ==
    \A r \in Reqs :
        /\ req[r].pc # "failed"
        /\ (Decided(r) /\ ~Authenticated(r))
              => Outcome(r) = Gate(rev, req[r].path, NoUser)

\* C13: the gate suspends exactly once per request, on auth(): an invoked
\* callback first waits with no outcome emitted, the step that ends the wait
\* is the one that emits the outcome, and nothing is emitted at any other step.
C13_OneAwaitBeforeOutcome ==
    [][\A r \in Reqs :
        /\ (req[r].pc = "idle" /\ req'[r].pc # "idle")
              => (req'[r].pc = "auth" /\ req'[r].emitted = <<>>)
        /\ (req[r].pc = "auth" /\ req'[r].pc # "auth")
              => (req'[r].pc = "gated" /\ Len(req'[r].emitted) = 1)
        /\ (req'[r].emitted # req[r].emitted /\ req'[r].pc # "idle")
              => (req[r].pc = "auth" /\ req[r].emitted = <<>>)
      ]_vars

C13_Witness ==
    \E r, q \in Reqs :
        /\ req[r].pc = "auth" /\ req[r].emitted = <<>>
        /\ req[q].pc = "gated" /\ Len(req[q].emitted) = 1

\* C15: the gate shares no mutable state between requests: a step of one
\* request changes no other request, and whatever else is in flight, the
\* outcome a request gets is the gate's answer to its own path and its own
\* authentication state.
C15_RequestsAreIndependent ==
    [][\A r \in Reqs :
        req'[r] # req[r]
        => /\ \A q \in Reqs \ {r} : req'[q] = req[q]
           /\ (req[r].pc = "auth" /\ req'[r].pc = "gated")
                 => req'[r].emitted = <<Gate(rev, req[r].path, req[r].session)>>
           /\ rev' = rev
      ]_vars

C15_Witness ==
    \E r, q \in Reqs :
        /\ r # q /\ Decided(r) /\ Decided(q)
        /\ req[r].path = req[q].path
        /\ Authenticated(r) /\ ~Authenticated(q)
        /\ Outcome(r) # Outcome(q)

(* ------------------------------------------------------------------ *)
(* DELETE /api/deletevideos/[id]                                        *)
(* ------------------------------------------------------------------ *)

\* the route's folder, app/api/deletevideos/
DeletePrefix ==
    <<"/", "a", "p", "i", "/", "d", "e", "l", "e", "t", "e", "v", "i", "d", "e", "o",
      "s", "/">>

\* ids a DELETE request can name, as the characters of the [id] segment:
\* none, rows of the database, a row an upload creates, and no row at all
IdChars ==
    [v1 |-> <<"v", "1">>, v2 |-> <<"v", "2">>, v4 |-> <<"v", "4">>]
    @@ ("z.z" :> <<"z", ".", "z">>) @@ ("" :> <<>>)

\* the pathname of DELETE /api/deletevideos/<id>
DeletePath(id) == DeletePrefix \o IdChars[id]

DeletePaths == {DeletePath(id) : id \in DOMAIN IdChars}

\* params.id: the segment after the route's folder
DeleteParam(path) ==
    CHOOSE id \in DOMAIN IdChars :
        IdChars[id] = SubSeq(path, Len(DeletePrefix) + 1, Len(path))

\* which call of the delete handler throws something other than P2025, if any
DeleteFaults == {"none", "delete"}

\* mutant: deleteMany on the owner of the named row
DeleteVideo_WholeOwner(id, rows, fault) ==
    IF id = "" THEN [rows |-> rows, response |-> JsonResponse(400, "Invalid video ID", <<>>)]
    ELSE IF fault = "delete"
    THEN [rows |-> rows, response |-> JsonResponse(500, "Failed to delete video", <<>>)]
    ELSE IF ~\E v \in rows : v.id = id
    THEN [rows |-> rows, response |-> JsonResponse(404, "Video not found", <<>>)]
    ELSE [rows |-> {v \in rows : \A w \in rows : w.id = id => v.userId # w.userId},
          response |-> JsonResponse(200, "", <<>>)]

\* mutant: a missing row is not an error (deleteMany semantics)
DeleteVideo_MissingIsSuccess(id, rows, fault) ==
    IF id = "" THEN [rows |-> rows, response |-> JsonResponse(400, "Invalid video ID", <<>>)]
    ELSE IF fault = "delete"
    THEN [rows |-> rows, response |-> JsonResponse(500, "Failed to delete video", <<>>)]
    ELSE [rows |-> {v \in rows : v.id # id}, response |-> JsonResponse(200, "", <<>>)]

\* DELETE of src/app/api/deletevideos/[id]/route.ts (the DELETE in
\* src/app/api/webhook/route.ts and src/unnamed/part_004 decide the same way):
\* the database after the call and the response.  {success: true} is the
\* 200 response without an error.
DeleteVideo(id, rows, fault) ==
    IF id = "" THEN [rows |-> rows, response |-> JsonResponse(400, "Invalid video ID", <<>>)]
    ELSE IF fault = "delete"
    THEN [rows |-> rows, response |-> JsonResponse(500, "Failed to delete video", <<>>)]
    ELSE IF ~\E v \in rows : v.id = id
    THEN [rows |-> rows, response |-> JsonResponse(404, "Video not found", <<>>)]
    ELSE [rows |-> {v \in rows : v.id # id}, response |-> JsonResponse(200, "", <<>>)]

(* ------------------------------------------------------------------ *)
(* Uploads: form fields                                                 *)
(* ------------------------------------------------------------------ *)

\* UPLOAD_CONSTRAINTS.maxFileSize, 500 * 1024 * 1024
MaxFileSize == 524288000

\* the image handler's limit
MaxImageSize == 10000000

VideoMp4 == <<"v", "i", "d", "e", "o", "/", "m", "p", "4">>
ImagePng == <<"i", "m", "a", "g", "e", "/", "p", "n", "g">>
VideoSlash == <<"v", "i", "d", "e", "o", "/">>
ImageSlash == <<"i", "m", "a", "g", "e", "/">>

\* formData.get("file") when the field is missing
NoFile == [present |-> FALSE, type |-> <<>>, size |-> 0]

\* formData.get("file"): MIME type and byte size, around both limits
Files ==
    {NoFile}
    \cup [present : {TRUE}, type : {VideoMp4}, size : {1, MaxFileSize, MaxFileSize + 1}]
    \cup [present : {TRUE}, type : {ImagePng}, size : {1, MaxImageSize, MaxImageSize + 1}]

\* formData.get("title"); a missing field and "" are both falsy
Titles == {<<>>, <<" ">>, <<" ", "c">>}

\* String.prototype.trim, on spaces
RECURSIVE Trim(_)
Trim(t) ==
    IF t = <<>> THEN t
    ELSE IF Head(t) = " " THEN Trim(Tail(t))
    ELSE IF t[Len(t)] = " " THEN Trim(SubSeq(t, 1, Len(t) - 1))
    ELSE t

\* !title || title.trim().length === 0
TitleMissing(t) == t = <<>> \/ Len(Trim(t)) = 0

(* ------------------------------------------------------------------ *)
(* Uploads: the promise around the upload callback                      *)
(* ------------------------------------------------------------------ *)

\* what the media host's callback reports: a result, an error, or neither
Reports == {"result", "error", "nothing"}

\* the revisions that wrap upload_stream's callback in a promise
PromiseRevs == {"videos_route_post", "image_upload", "part_006", "part_005"}

\* the resolve/reject calls the callback makes, in order
\* (src/app/api/videos/route.ts 95-99, src/app/api/image-upload/route.ts
\* 191-204, src/unnamed/part_006 233-242: error -> reject, no result -> reject)
SettleCallsChecked(report) ==
    IF report = "error" THEN <<"reject">>
    ELSE IF report = "nothing" THEN <<"reject">>
    ELSE <<"resolve">>

\* src/unnamed/part_005 48-51: error -> reject, otherwise resolve(result)
SettleCallsPart005(report) ==
    IF report = "error" THEN <<"reject">>
    ELSE IF report = "nothing" THEN <<"resolve_undefined">>
    ELSE <<"resolve">>

\* the calls made on the promise of one upload
SettleCalls(prev, report) ==
    IF prev = "part_005" THEN SettleCallsPart005(report)
    ELSE SettleCallsChecked(report)

\* a promise keeps its first settlement
Settlement(calls) == IF calls = <<>> THEN "pending" ELSE Head(calls)

(* ------------------------------------------------------------------ *)
(* Uploads: the POST handlers                                           *)
(* ------------------------------------------------------------------ *)

\* the collaborator that fails during one request, if any
UploadFaults ==
    {"none", "auth", "currentUser", "getOrCreateUser", "formData",
     "upload", "uploadNothing", "write", "probe", "create"}

\* what the media host's callback reports under a fault
ReportOf(fault) ==
    IF fault = "upload" THEN "error"
    ELSE IF fault = "uploadNothing" THEN "nothing"
    ELSE "result"

\* what one run of a handler did: the response, whether a file was stored at
\* the media host, whether a Video row was created, whether the User row was
\* ensured, whether an exception left the handler, and the collaborators
\* called, in order
Ran(st, err, stored, created, ensured, calls) ==
    [status |-> st, error |-> err, stored |-> stored, created |-> created,
     ensured |-> ensured, crashed |-> FALSE, calls |-> calls]

\* an exception thrown outside every try block
Escaped(calls) ==
    [status |-> 0, error |-> "", stored |-> FALSE, created |-> FALSE,
     ensured |-> FALSE, crashed |-> TRUE, calls |-> calls]

\* src/app/api/video-upload/route.ts, POST: ImageKit upload
VideoUploadRoute(session, file, title, fault) ==
    IF fault = "auth" THEN
        Ran(500, "Upload failed", FALSE, FALSE, FALSE, <<"auth">>)
    ELSE IF session = NoUser THEN
        Ran(401, "Unauthorized", FALSE, FALSE, FALSE, <<"auth">>)
    ELSE IF fault = "currentUser" THEN
        Ran(500, "Upload failed", FALSE, FALSE, FALSE, <<"auth", "currentUser">>)
    ELSE IF fault = "getOrCreateUser" THEN
        Ran(500, "Upload failed", FALSE, FALSE, FALSE,
            <<"auth", "currentUser", "getOrCreateUser">>)
    ELSE IF fault = "formData" THEN
        Ran(500, "Upload failed", FALSE, FALSE, TRUE,
            <<"auth", "currentUser", "getOrCreateUser", "formData">>)
    ELSE IF ~file.present \/ ~StartsWith(file.type, VideoSlash) THEN
        Ran(400, "Valid video file required", FALSE, FALSE, TRUE,
            <<"auth", "currentUser", "getOrCreateUser", "formData">>)
    ELSE IF TitleMissing(title) THEN
        Ran(400, "Title is required", FALSE, FALSE, TRUE,
            <<"auth", "currentUser", "getOrCreateUser", "formData">>)
    ELSE IF file.size > MaxFileSize THEN
        Ran(400, "File too large", FALSE, FALSE, TRUE,
            <<"auth", "currentUser", "getOrCreateUser", "formData">>)
    ELSE IF fault = "upload" THEN
        Ran(500, "Upload failed", FALSE, FALSE, TRUE,
            <<"auth", "currentUser", "getOrCreateUser", "formData", "upload">>)
    ELSE IF fault = "probe" THEN
        Ran(500, "Upload failed", TRUE, FALSE, TRUE,
            <<"auth", "currentUser", "getOrCreateUser", "formData", "upload",
              "probe">>)
    ELSE IF fault = "create" THEN
        Ran(500, "Upload failed", TRUE, FALSE, TRUE,
            <<"auth", "currentUser", "getOrCreateUser", "formData", "upload",
              "probe", "create">>)
    ELSE
        Ran(200, "", TRUE, TRUE, TRUE,
            <<"auth", "currentUser", "getOrCreateUser", "formData", "upload",
              "probe", "create">>)

\* src/unnamed/part_006, POST: Cloudinary chunked upload; no size check
VideoUploadPart006(session, file, title, fault) ==
    IF fault = "auth" THEN
        Ran(500, "Upload failed", FALSE, FALSE, FALSE, <<"auth">>)
    ELSE IF session = NoUser THEN
        Ran(401, "Unauthorized", FALSE, FALSE, FALSE, <<"auth">>)
    ELSE IF fault = "currentUser" THEN
        Ran(500, "Upload failed", FALSE, FALSE, FALSE,
            <<"auth", "currentUser">>)
    ELSE IF fault = "getOrCreateUser" THEN
        Ran(500, "Upload failed", FALSE, FALSE, FALSE,
            <<"auth", "currentUser", "getOrCreateUser">>)
    ELSE IF fault = "formData" THEN
        Ran(500, "Upload failed", FALSE, FALSE, TRUE,
            <<"auth", "currentUser", "getOrCreateUser", "formData">>)
    ELSE IF ~file.present THEN
        Ran(400, "File not found", FALSE, FALSE, TRUE,
            <<"auth", "currentUser", "getOrCreateUser", "formData">>)
    ELSE IF ~StartsWith(file.type, VideoSlash) THEN
        Ran(400, "File must be a video", FALSE, FALSE, TRUE,
            <<"auth", "currentUser", "getOrCreateUser", "formData">>)
    ELSE IF TitleMissing(title) THEN
        Ran(400, "Title is required", FALSE, FALSE, TRUE,
            <<"auth", "currentUser", "getOrCreateUser", "formData">>)
    ELSE IF fault = "write" THEN
        Ran(500, "Upload failed", FALSE, FALSE, TRUE,
            <<"auth", "currentUser", "getOrCreateUser", "formData", "upload">>)
    ELSE IF Settlement(SettleCalls("part_006", ReportOf(fault))) # "resolve" THEN
        Ran(500, "Upload failed", FALSE, FALSE, TRUE,
            <<"auth", "currentUser", "getOrCreateUser", "formData", "upload">>)
    ELSE IF fault = "create" THEN
        Ran(500, "Upload failed", TRUE, FALSE, TRUE,
            <<"auth", "currentUser", "getOrCreateUser", "formData", "upload",
              "create">>)
    ELSE
        Ran(200, "", TRUE, TRUE, TRUE,
            <<"auth", "currentUser", "getOrCreateUser", "formData", "upload",
              "create">>)

\* src/app/api/videos/route.ts, POST: image upload; auth() is awaited before
\* the try block
ImageUploadVideosRoute(session, file, title, fault) ==
    IF fault = "auth" THEN Escaped(<<"auth">>)
    ELSE IF session = NoUser THEN
        Ran(401, "Unauthorized", FALSE, FALSE, FALSE, <<"auth">>)
    ELSE IF fault = "formData" THEN
        Ran(500, "Internal server error", FALSE, FALSE, FALSE,
            <<"auth", "formData">>)
    ELSE IF ~file.present THEN
        Ran(400, "File not found", FALSE, FALSE, FALSE, <<"auth", "formData">>)
    ELSE IF ~StartsWith(file.type, ImageSlash) THEN
        Ran(400, "File must be an image", FALSE, FALSE, FALSE,
            <<"auth", "formData">>)
    ELSE IF file.size > MaxImageSize THEN
        Ran(400, "File size exceeds 10MB limit", FALSE, FALSE, FALSE,
            <<"auth", "formData">>)
    ELSE IF Settlement(SettleCalls("videos_route_post", ReportOf(fault))) # "resolve" THEN
        Ran(500, "Internal server error", FALSE, FALSE, FALSE,
            <<"auth", "formData", "upload">>)
    ELSE
        Ran(200, "", TRUE, FALSE, FALSE, <<"auth", "formData", "upload">>)

\* src/unnamed/part_005, POST: auth() is awaited before the try block, only
\* the presence of the file is validated, and the callback resolves the
\* promise whenever it is given no error
VideoUploadPart005(session, file, title, fault) ==
    IF fault = "auth" THEN Escaped(<<"auth">>)
    ELSE IF session = NoUser THEN
        Ran(401, "Unauthorized", FALSE, FALSE, FALSE, <<"auth">>)
    ELSE IF fault = "formData" THEN
        Ran(500, "Upload Video Failed", FALSE, FALSE, FALSE, <<"auth", "formData">>)
    ELSE IF ~file.present THEN
        Ran(400, "File not found", FALSE, FALSE, FALSE, <<"auth", "formData">>)
    ELSE IF Settlement(SettleCalls("part_005", ReportOf(fault))) = "reject" THEN
        Ran(500, "Upload Video Failed", FALSE, FALSE, FALSE,
            <<"auth", "formData", "upload">>)
    ELSE IF Settlement(SettleCalls("part_005", ReportOf(fault))) = "resolve_undefined" THEN
        \* uploadResult.public_id on undefined throws inside the try
        Ran(500, "Upload Video Failed", FALSE, FALSE, FALSE,
            <<"auth", "formData", "upload">>)
    ELSE IF fault = "create" THEN
        Ran(500, "Upload Video Failed", TRUE, FALSE, FALSE,
            <<"auth", "formData", "upload", "create">>)
    ELSE
        Ran(200, "", TRUE, TRUE, FALSE, <<"auth", "formData", "upload", "create">>)

\* the revisions of the video upload handler found in the repository
UploadRevs == {"video_upload_route", "part_006", "part_005"}

\* the POST export of the deployed revision
VideoUpload(u, session, file, title, fault) ==
    CASE u = "video_upload_route" -> VideoUploadRoute(session, file, title, fault)
      [] u = "part_006" -> VideoUploadPart006(session, file, title, fault)
      [] u = "part_005" -> VideoUploadPart005(session, file, title, fault)

\* the resolve/reject calls made on the promise around the upload callback
\* during one run; the ImageKit revision awaits the SDK's own promise
PromiseCalls(prev, out, fault) ==
    IF prev = "video_upload_route" \/ out.calls = <<>> \/ out.calls[Len(out.calls)] = "auth"
       \/ ~\E i \in 1..Len(out.calls) : out.calls[i] = "upload"
    THEN <<>>
    ELSE IF fault = "write" /\ prev = "part_006" THEN <<"reject">>
    ELSE SettleCalls(prev, ReportOf(fault))


(* ------------------------------------------------------------------ *)
(* The API routes behind the gate                                       *)
(* ------------------------------------------------------------------ *)

\* a route handler is invoked once per request and is modelled as one step,
\* so the API model serves one request at a time; requests interleaving at
\* the gate are the subject of SpecGate
ApiReqs == {1}

\* number of files the media host accepts in one run
MaxUploads == 1

ApiImageUpload ==
    <<"/", "a", "p", "i", "/", "i", "m", "a", "g", "e", "-", "u", "p", "l", "o", "a", "d">>
ApiWebhook == <<"/", "a", "p", "i", "/", "w", "e", "b", "h", "o", "o", "k">>
FaviconIco == <<"/", "f", "a", "v", "i", "c", "o", "n", ".", "i", "c", "o">>
ApiSlash == <<"/", "a", "p", "i", "/">>
TrpcPrefix == <<"/", "t", "r", "p", "c">>
NextPrefix == <<"_", "n", "e", "x", "t">>

\* the requests the API model draws from
ApiRoutes ==
    {[method |-> "POST", path |-> ApiVideos],
     [method |-> "POST", path |-> ApiVideoUpload],
     [method |-> "POST", path |-> ApiImageUpload],
     [method |-> "POST", path |-> ApiWebhook],
     [method |-> "GET", path |-> FaviconIco]}
    \cup [method : {"DELETE"}, path : DeletePaths]

HasDot(s) == \E i \in 1..Len(s) : s[i] = "."

\* mutant: the matcher without its API pattern
ConfigMatcher_NoApiPattern(r, path) ==
    \/ ~HasDot(Tail(path)) /\ ~StartsWith(Tail(path), NextPrefix)
    \/ path = Root

\* export const config = { matcher: [...] }: the requests the gate runs on
ConfigMatcher(r, path) ==
    \/ ~HasDot(Tail(path)) /\ ~StartsWith(Tail(path), NextPrefix)
    \/ path = Root
    \/ IF r = "part_000" THEN StartsWith(path, ApiSlash)
       ELSE StartsWith(path, ApiPrefix) \/ StartsWith(path, TrpcPrefix)

\* ids of the rows uploads create, and of the User row created on first upload
NewVideoIds == <<"v4", "v5", "v6">>
NewUserIds == [clerk_c |-> "user_c"]

\* getOrCreateUser(clerkId, email, name): the caller's User row, created if
\* there is none
GetOrCreateUser(clerkId, table) ==
    IF clerkId \in DOMAIN table THEN table
    ELSE table @@ (clerkId :> NewUserIds[clerkId])

\* bodies a POST /api/webhook can carry: whether request.json() parses it,
\* the JSON value's kind, whether the value is falsy, and the type and value
\* of its notification_type property
WebhookPayloads ==
    [unparsable |-> [parses |-> FALSE, json |-> "none", falsy |-> FALSE,
                     ntype |-> "undefined", nvalue |-> ""],
     null |-> [parses |-> TRUE, json |-> "null", falsy |-> TRUE,
               ntype |-> "undefined", nvalue |-> ""],
     zero |-> [parses |-> TRUE, json |-> "number", falsy |-> TRUE,
               ntype |-> "undefined", nvalue |-> ""],
     text |-> [parses |-> TRUE, json |-> "string", falsy |-> FALSE,
               ntype |-> "undefined", nvalue |-> ""],
     array |-> [parses |-> TRUE, json |-> "array", falsy |-> FALSE,
                ntype |-> "undefined", nvalue |-> ""],
     empty |-> [parses |-> TRUE, json |-> "object", falsy |-> FALSE,
                ntype |-> "undefined", nvalue |-> ""],
     numeric |-> [parses |-> TRUE, json |-> "object", falsy |-> FALSE,
                  ntype |-> "number", nvalue |-> ""],
     blank |-> [parses |-> TRUE, json |-> "object", falsy |-> FALSE,
                ntype |-> "string", nvalue |-> ""],
     eager |-> [parses |-> TRUE, json |-> "object", falsy |-> FALSE,
                ntype |-> "string", nvalue |-> "eager"],
     moderation |-> [parses |-> TRUE, json |-> "object", falsy |-> FALSE,
                     ntype |-> "string", nvalue |-> "moderation"],
     upload |-> [parses |-> TRUE, json |-> "object", falsy |-> FALSE,
                 ntype |-> "string", nvalue |-> "upload"]]

\* typeof data
TypeOf(json) == IF json \in {"null", "array", "object"} THEN "object" ELSE json

\* mutant: an unknown notification type is rejected
WebhookPost_UnknownIs400(p) ==
    IF ~p.parses THEN JsonResponse(500, "Webhook processing failed", <<>>)
    ELSE IF p.falsy \/ TypeOf(p.json) # "object"
    THEN JsonResponse(400, "Invalid payload", <<>>)
    ELSE IF p.ntype # "string" \/ p.nvalue \notin {"eager", "moderation"}
    THEN JsonResponse(400, "Missing or invalid notification type", <<>>)
    ELSE JsonResponse(200, "", <<>>)

\* POST of src/app/api/webhook/route.ts; {success: true} is the 200 response
\* without an error
WebhookPost(p) ==
    IF ~p.parses THEN JsonResponse(500, "Webhook processing failed", <<>>)
    ELSE IF p.falsy \/ TypeOf(p.json) # "object"
    THEN JsonResponse(400, "Invalid payload", <<>>)
    ELSE IF p.ntype # "string"
    THEN JsonResponse(400, "Missing or invalid notification type", <<>>)
    ELSE JsonResponse(200, "", <<>>)

InitApi ==
    /\ rev \in GateRevs
    /\ lrev = "videos_route"
    /\ urev \in UploadRevs
    /\ videos = SampleVideos
    /\ req = [r \in ApiReqs |-> Idle]
    /\ users = Users
    /\ host = {}
    /\ ClientIdle

\* the framework receives a request and invokes the gate when the matcher
\* selects the request; otherwise the request goes straight to its route
ApiArrive(r) ==
    /\ req[r].pc = "idle"
    /\ \E route \in ApiRoutes, session \in Sessions :
          req' = [req EXCEPT ![r] =
                    [Idle EXCEPT !.pc = IF ConfigMatcher(rev, route.path)
                                       THEN "auth" ELSE "bypass",
                                 !.method = route.method,
                                 !.path = route.path,
                                 !.session = session]]
    /\ UNCHANGED <<stream, card, share, rev, lrev, urev, videos, users, host>>

\* the framework hands request r to its route handler
Reaches(r) == Passed(r) \/ req[r].pc = "bypass"

IsDelete(r) == req[r].method = "DELETE" /\ StartsWith(req[r].path, DeletePrefix)
IsVideoUpload(r) == req[r].method = "POST" /\ req[r].path = ApiVideoUpload
IsImageUpload(r) == req[r].method = "POST" /\ req[r].path = ApiVideos

\* mutant: the handler refuses to delete a row the caller does not own
HandleDelete_ChecksOwner(r) ==
    /\ Reaches(r)
    /\ IsDelete(r)
    /\ \E fault \in DeleteFaults :
          LET id == DeleteParam(req[r].path)
              own == {v \in videos : req[r].session \in DOMAIN users
                                     /\ v.userId = users[req[r].session]}
              out == IF \E v \in videos \ own : v.id = id
                     THEN [rows |-> videos,
                           response |-> JsonResponse(403, "Forbidden", <<>>)]
                     ELSE DeleteVideo(id, videos, fault)
          IN
          /\ videos' = out.rows
          /\ req' = [req EXCEPT ![r].pc = "handled",
                                ![r].fault = fault,
                                ![r].response = out.response]
    /\ UNCHANGED <<stream, card, share, rev, lrev, urev, users, host>>

\* DELETE /api/deletevideos/[id]
HandleDelete(r) ==
    /\ Reaches(r)
    /\ IsDelete(r)
    /\ \E fault \in DeleteFaults :
          LET out == DeleteVideo(DeleteParam(req[r].path), videos, fault) IN
          /\ videos' = out.rows
          /\ req' = [req EXCEPT ![r].pc = "handled",
                                ![r].fault = fault,
                                ![r].response = out.response]
    /\ UNCHANGED <<stream, card, share, rev, lrev, urev, users, host>>

IsWebhook(r) == req[r].method = "POST" /\ req[r].path = ApiWebhook

\* POST /api/webhook
HandleWebhook(r) ==
    /\ Reaches(r)
    /\ IsWebhook(r)
    /\ \E name \in DOMAIN WebhookPayloads :
          req' = [req EXCEPT ![r].pc = "handled",
                             ![r].payload = name,
                             ![r].response = WebhookPost(WebhookPayloads[name])]
    /\ UNCHANGED <<stream, card, share, rev, lrev, urev, videos, users, host>>

\* the effects of one run of an upload handler on request r
UploadEffects(r, out, via, file, title, fault, settled) ==
    LET n == Cardinality(host) + 1
        session == req[r].session
        table == IF out.ensured THEN GetOrCreateUser(session, users) ELSE users
    IN
    /\ users' = table
    /\ host' = IF out.stored
               THEN host \cup {[n |-> n, via |-> via, type |-> file.type,
                                size |-> file.size, title |-> title]}
               ELSE host
    /\ videos' = IF out.created
                 THEN videos \cup
                        {[id |-> NewVideoIds[n],
                          userId |-> IF out.ensured THEN table[session] ELSE "",
                          createdAt |-> 3 + n]}
                 ELSE videos
    /\ req' = [req EXCEPT ![r].pc = IF out.crashed THEN "crashed" ELSE "handled",
                          ![r].fault = fault,
                          ![r].response = JsonResponse(out.status, out.error, <<>>),
                          ![r].settled = settled]

\* POST /api/video-upload
HandleVideoUpload(r) ==
    /\ Reaches(r)
    /\ IsVideoUpload(r)
    /\ Cardinality(host) < MaxUploads
    /\ \E file \in Files, title \in Titles, fault \in UploadFaults :
          LET out == VideoUpload(urev, req[r].session, file, title, fault) IN
          UploadEffects(r, out, "video", file, title, fault,
                        PromiseCalls(urev, out, fault))
    /\ UNCHANGED <<stream, card, share, rev, lrev, urev>>

\* POST /api/videos: the image upload
HandleImageUpload(r) ==
    /\ Reaches(r)
    /\ IsImageUpload(r)
    /\ Cardinality(host) < MaxUploads
    /\ \E file \in Files, fault \in UploadFaults :
          LET out == ImageUploadVideosRoute(req[r].session, file, <<>>, fault) IN
          UploadEffects(r, out, "image", file, <<>>, fault,
                        PromiseCalls("videos_route_post", out, fault))
    /\ UNCHANGED <<stream, card, share, rev, lrev, urev>>

\* the response is delivered, or the framework answers for a handler that
\* threw, and the slot is free again
ApiFinish(r) ==
    /\ \/ req[r].pc \in {"handled", "crashed"}
       \/ req[r].pc = "gated" /\ ~Passed(r)
       \/ Reaches(r) /\ ~IsDelete(r) /\ ~IsVideoUpload(r) /\ ~IsImageUpload(r)
             /\ ~IsWebhook(r)
    /\ req' = [req EXCEPT ![r] = Idle]
    /\ UNCHANGED <<stream, card, share, rev, lrev, urev, videos, users, host>>

NextApi ==
    \E r \in ApiReqs :
        \/ ApiArrive(r)
        \/ AuthResolved(r)
        \/ HandleDelete(r)
        \/ HandleVideoUpload(r)
        \/ HandleImageUpload(r)
        \/ HandleWebhook(r)
        \/ ApiFinish(r)

SpecApi == InitApi /\ [][NextApi]_vars

(* ------------------------------------------------------------------ *)
(* Properties of the API routes                                         *)
(* ------------------------------------------------------------------ *)

\* a route handler has run on request r
HandlerRan(r) == req[r].pc \in {"handled", "crashed"}

\* r has just been handled by this step
JustHandled(r) == ~HandlerRan(r) /\ HandlerRan(r)'

\* C14: for every request the matcher selects, a route handler runs only
\* after the gate has decided and only on a pass-through; so no
\* unauthenticated request is handed to the handler of a non-public API route.
C14_HandlerOnlyAfterPass ==
    \A r \in ApiReqs :
        /\ (req[r].pc # "idle" /\ UnderApi(req[r].path)) => req[r].pc # "bypass"
        /\ (HandlerRan(r) /\ ConfigMatcher(rev, req[r].path))
              => req[r].emitted = <<PassThrough>>
        /\ (req[r].pc # "idle" /\ ~Authenticated(r) /\ UnderApi(req[r].path)
              /\ req[r].path \notin PublicApiPaths)
              => (~Reaches(r) /\ ~HandlerRan(r))

\* an unauthenticated DELETE naming an existing row was stopped by the gate,
\* after an authenticated request had been handled
C14_Witness ==
    \E r \in ApiReqs :
        /\ req[r].pc = "gated"
        /\ ~Authenticated(r)
        /\ IsDelete(r)
        /\ \E v \in videos : v.id = DeleteParam(req[r].path)
        /\ Outcome(r) # PassThrough
        /\ videos # SampleVideos

\* C19: a successful DELETE /api/deletevideos/[id] removes exactly the row
\* with that id and answers {success: true}; every other Video row and every
\* User row is unchanged.
C19_DeleteRemovesExactlyOneRow ==
    [][\A r \in ApiReqs :
         (IsDelete(r) /\ JustHandled(r) /\ req'[r].response.status = 200) =>
            LET id == DeleteParam(req[r].path) IN
            /\ \E v \in videos : v.id = id
            /\ videos' = {v \in videos : v.id # id}
            /\ Cardinality(videos') = Cardinality(videos) - 1
            /\ users' = users
            /\ req'[r].response = JsonResponse(200, "", <<>>)]_vars

\* a DELETE succeeded and left other rows of the same owner in the table
C19_Witness ==
    \E r \in ApiReqs :
        /\ req[r].pc = "handled"
        /\ IsDelete(r)
        /\ req[r].response.status = 200
        /\ DeleteParam(req[r].path) = "v1"
        /\ \E v \in videos : v.userId = "user_a"
        /\ \E v \in videos : v.userId = "user_b"

\* C20: a DELETE naming no row answers 404 "Video not found" and changes
\* nothing; an empty id answers 400; a DELETE naming a row removes it, so the
\* second of two DELETEs of one id answers 404.
C20_DeleteOfMissingRow ==
    [][\A r \in ApiReqs :
         (IsDelete(r) /\ JustHandled(r) /\ req'[r].fault = "none") =>
            LET id == DeleteParam(req[r].path) IN
            /\ id = "" =>
                  /\ req'[r].response = JsonResponse(400, "Invalid video ID", <<>>)
                  /\ videos' = videos
            /\ (id # "" /\ ~\E v \in videos : v.id = id) =>
                  /\ req'[r].response = JsonResponse(404, "Video not found", <<>>)
                  /\ videos' = videos
                  /\ users' = users
            /\ (id # "" /\ \E v \in videos : v.id = id) =>
                  /\ req'[r].response.status = 200
                  /\ ~\E v \in videos' : v.id = id]_vars

\* the second DELETE of a row of the initial table was answered 404
C20_Witness ==
    \E r \in ApiReqs :
        /\ req[r].pc = "handled"
        /\ IsDelete(r)
        /\ DeleteParam(req[r].path) = "v2"
        /\ req[r].response = JsonResponse(404, "Video not found", <<>>)
        /\ ~\E v \in videos : v.id = "v2"

\* C16: the video-upload POST handler validates, then forwards, then
\* persists: a file reaches the media host only for an authenticated caller
\* and after the file-type, title and size checks passed; a Video row is
\* created only in a run that stored the file; a 400 or 401 response leaves
\* the media host and the Video table as they were.
C16_ValidateForwardPersist ==
    [][\A r \in ApiReqs :
         (IsVideoUpload(r) /\ JustHandled(r)) =>
            /\ \A f \in host' \ host :
                  /\ Authenticated(r)
                  /\ StartsWith(f.type, VideoSlash)
                  /\ ~TitleMissing(f.title)
                  /\ f.size <= MaxFileSize
            /\ videos' # videos => host' # host
            /\ req'[r].response.status \in {400, 401}
                  => (host' = host /\ videos' = videos)]_vars

\* C17: every collaborator failure is caught inside the handler and answered
\* with an HTTP error response; no exception leaves a handler.
C17_FailuresAreAnswered ==
    \A r \in ApiReqs :
        /\ req[r].pc # "crashed"
        /\ (req[r].pc = "handled" /\ req[r].fault = "auth")
              => req[r].response.status >= 400

\* C18: the promise around the upload callback settles exactly once: it
\* resolves with the result when there is one and rejects on an error or when
\* no result is returned; the handler answers 200 only after it resolved.
C18_PromiseSettlesOnce ==
    \A r \in ApiReqs :
        (HandlerRan(r) /\ req[r].settled # <<>>) =>
            /\ Len(req[r].settled) = 1
            /\ req[r].settled[1] \in {"resolve", "reject"}
            /\ req[r].fault \in {"upload", "uploadNothing"}
                  => req[r].settled = <<"reject">>
            /\ req[r].response.status = 200 => req[r].settled = <<"resolve">>

(* ------------------------------------------------------------------ *)
(* Listing after uploads and deletes                                    *)
(* ------------------------------------------------------------------ *)

\* the requests the listing model draws from
ListRoutes ==
    {[method |-> "GET", path |-> ApiVideos],
     [method |-> "POST", path |-> ApiVideoUpload]}
    \cup [method : {"DELETE"}, path : DeletePaths]

InitList ==
    /\ rev \in GateRevs
    /\ lrev \in ListRevs
    /\ urev = "video_upload_route"
    /\ videos = SampleVideos
    /\ req = [r \in ApiReqs |-> Idle]
    /\ users = Users
    /\ host = {}
    /\ ClientIdle

\* a listing, upload or delete request arrives
ListArrive(r) ==
    /\ req[r].pc = "idle"
    /\ \E route \in ListRoutes, session \in Sessions :
          req' = [req EXCEPT ![r] =
                    [Idle EXCEPT !.pc = IF ConfigMatcher(rev, route.path)
                                       THEN "auth" ELSE "bypass",
                                 !.method = route.method,
                                 !.path = route.path,
                                 !.session = session]]
    /\ UNCHANGED <<stream, card, share, rev, lrev, urev, videos, users, host>>

\* the response is delivered and the slot is free again
ListFinish(r) ==
    /\ \/ req[r].pc \in {"handled", "crashed"}
       \/ req[r].pc = "gated" /\ ~Passed(r)
    /\ req' = [req EXCEPT ![r] = Idle]
    /\ UNCHANGED <<stream, card, share, rev, lrev, urev, videos, users, host>>

NextList ==
    \E r \in ApiReqs :
        \/ ListArrive(r)
        \/ AuthResolved(r)
        \/ HandleListVideos(r)
        \/ HandleVideoUpload(r)
        \/ HandleDelete(r)
        \/ ListFinish(r)

SpecList == InitList /\ [][NextList]_vars

\* request r is a handled GET /api/videos
ListingAnswered(r) ==
    req[r].pc = "handled" /\ req[r].method = "GET" /\ req[r].path = ApiVideos

\* the rows of the caller of r, newest first
OwnVideos(r) ==
    OrderByCreatedAtDesc(
        {v \in videos : req[r].session \in DOMAIN users
                        /\ v.userId = users[req[r].session]})

\* C21: after any uploads and deletes, GET /api/videos by an authenticated
\* user returns exactly that user's remaining Video rows, newest first, and
\* never a row of another user.
C21_ListingIsOwnRowsNewestFirst ==
    \A r \in ApiReqs :
        (ListingAnswered(r) /\ Authenticated(r)) =>
            /\ req[r].response.status = 200 => req[r].response.body = OwnVideos(r)
            /\ (req[r].fault = "none" /\ req[r].session \in DOMAIN users)
                  => req[r].response.status = 200

\* C22: the delete handler does not compare the row's owner with the caller:
\* every authenticated DELETE passes the gate, and one that names a row of
\* another user deletes that row and is answered {success: true}.
C22_DeleteIgnoresOwner ==
    [][\A r \in ApiReqs :
         /\ (req'[r].pc = "gated" /\ req'[r].method = "DELETE"
               /\ req'[r].session # NoUser)
               => req'[r].emitted = <<PassThrough>>
         /\ (IsDelete(r) /\ JustHandled(r) /\ req'[r].fault = "none") =>
               \A v \in videos :
                   (/\ v.id = DeleteParam(req[r].path)
                    /\ \/ req[r].session \notin DOMAIN users
                       \/ v.userId # users[req[r].session])
                   => /\ v \notin videos'
                      /\ req'[r].response = JsonResponse(200, "", <<>>)]_vars

\* clerk_a, whose rows are v1 and v3, deleted v2, a row of user_b
C22_Witness ==
    \E r \in ApiReqs :
        /\ req[r].pc = "handled"
        /\ IsDelete(r)
        /\ req[r].session = "clerk_a"
        /\ DeleteParam(req[r].path) = "v2"
        /\ req[r].emitted = <<PassThrough>>
        /\ req[r].response = JsonResponse(200, "", <<>>)
        /\ ~\E v \in videos : v.id = "v2"

\* C23: a video upload is all-or-nothing: an error answer leaves no file of
\* the request at the media host and no Video row; a 200 answer leaves both.
C23_UploadAllOrNothing ==
    [][\A r \in ApiReqs :
         (IsVideoUpload(r) /\ JustHandled(r)) =>
            /\ (req'[r].pc = "crashed" \/ req'[r].response.status >= 400)
                  => (host' = host /\ videos' = videos)
            /\ (req'[r].pc = "handled" /\ req'[r].response.status = 200)
                  => (host' # host /\ videos' # videos)]_vars

(* ------------------------------------------------------------------ *)
(* Following the gate's redirects                                       *)
(* ------------------------------------------------------------------ *)

\* number of redirects a browser follows before it gives up
MaxFollow == 3

InitFollow ==
    /\ rev \in GateRevs
    /\ lrev = "videos_route"
    /\ urev = "video_upload_route"
    /\ videos = SampleVideos
    /\ req = [r \in ApiReqs |-> Idle]
    /\ users = Users
    /\ host = {}
    /\ ClientIdle

\* the browser re-submits the Location of a redirect with the same session
FollowRedirect(r) ==
    /\ req[r].pc = "gated"
    /\ Outcome(r).kind = "redirect"
    /\ req[r].redirects < MaxFollow
    /\ req' = [req EXCEPT ![r] =
                 [Idle EXCEPT !.pc = "auth",
                              !.path = Outcome(r).location,
                              !.session = req[r].session,
                              !.redirects = req[r].redirects + 1]]
    /\ UNCHANGED <<stream, card, share, rev, lrev, urev, videos, users, host>>

\* the browser shows what it got
FollowEnd(r) ==
    /\ req[r].pc = "gated"
    /\ req' = [req EXCEPT ![r] = Idle]
    /\ UNCHANGED <<stream, card, share, rev, lrev, urev, videos, users, host>>

NextFollow ==
    \E r \in ApiReqs :
        \/ Arrive(r)
        \/ AuthResolved(r)
        \/ FollowRedirect(r)
        \/ FollowEnd(r)

SpecFollow == InitFollow /\ [][NextFollow]_vars

\* C24: with the authentication state fixed, following the gate's redirects
\* ends: the answer to a re-submitted redirect target is a pass-through or a
\* further redirect, and after two redirects it is a pass-through.
C24_RedirectsEnd ==
    \A r \in ApiReqs :
        (Decided(r) /\ req[r].redirects >= 1) =>
            /\ Outcome(r).kind \in {"next", "redirect"}
            /\ req[r].redirects >= 2 => Outcome(r) = PassThrough

\* an unauthenticated caller was redirected once and then passed through
C24_Witness ==
    \E r \in ApiReqs :
        /\ Decided(r)
        /\ ~Authenticated(r)
        /\ req[r].redirects = 1
        /\ req[r].path = SignIn
        /\ Outcome(r) = PassThrough

(* ------------------------------------------------------------------ *)
(* src/unnamed/part_006: compression settings and the chunked upload    *)
(* ------------------------------------------------------------------ *)

\* const chunkSize = 5000000
ChunkSize == 5000000

\* 1024 * 1024
MiB == 1048576

\* largest number of full chunks in a sample buffer
MaxChunks == 4

\* file.size, which is also buffer.length: around the multiples of the chunk
\* size and around the tier boundaries
BufferSizes ==
    {k * ChunkSize + d : k \in 0..MaxChunks, d \in {0, 1}}
    \cup {k * ChunkSize - 1 : k \in 1..MaxChunks}
    \cup {2 * MiB - 1, 2 * MiB, 2 * MiB + 1, 10 * MiB - 1, 10 * MiB, 10 * MiB + 1}

\* mutant: the boundaries belong to the lower tier
getCompressionSettings_BoundaryBelow(originalSizeBytes) ==
    IF originalSizeBytes <= 2 * MiB
    THEN [quality |-> "", eager |-> <<>>, eagerAsync |-> FALSE]
    ELSE IF originalSizeBytes <= 10 * MiB
    THEN [quality |-> "auto:good", eager |-> <<"mp4">>, eagerAsync |-> TRUE]
    ELSE [quality |-> "auto:low", eager |-> <<"mp4", "webm">>, eagerAsync |-> TRUE]

\* getCompressionSettings: sizeMB = originalSizeBytes / (1024 * 1024) is exact
\* in floating point (division by a power of two), so sizeMB < n is
\* originalSizeBytes < n * MiB.  quality is that of the transformation, ""
\* when there is none; eager lists the formats of the eager transformations.
getCompressionSettings(originalSizeBytes) ==
    IF originalSizeBytes < 2 * MiB
    THEN [quality |-> "", eager |-> <<>>, eagerAsync |-> FALSE]
    ELSE IF originalSizeBytes < 10 * MiB
    THEN [quality |-> "auto:good", eager |-> <<"mp4">>, eagerAsync |-> TRUE]
    ELSE [quality |-> "auto:low", eager |-> <<"mp4", "webm">>, eagerAsync |-> TRUE]

\* compressionApplied: file.size >= 2 * 1024 * 1024
compressionApplied(size) == size >= 2 * 1024 * 1024

\* buffer.slice(from, from + chunkSize), as the byte range it covers
Slice(size, from) ==
    [from |-> IF from < size THEN from ELSE size,
     to |-> IF from + ChunkSize < size THEN from + ChunkSize ELSE size]

InitStream ==
    /\ rev = "middleware_1"
    /\ lrev = "videos_route"
    /\ urev = "part_006"
    /\ videos = SampleVideos
    /\ req = [r \in ApiReqs |-> Idle]
    /\ users = Users
    /\ host = {}
    /\ ClientIdle

\* POST computes the settings, opens upload_stream and calls writeChunk()
OpenStream ==
    /\ stream.pc = "idle"
    /\ \E size \in BufferSizes :
          LET settings == getCompressionSettings(size) IN
          stream' = [pc |-> "writing", size |-> size, offset |-> 0,
                     writes |-> <<Slice(size, 0)>>, ends |-> 0,
                     quality |-> settings.quality, eager |-> settings.eager,
                     eagerAsync |-> settings.eagerAsync,
                     applied |-> compressionApplied(size)]
    /\ UNCHANGED <<card, share, rev, lrev, urev, videos, req, users, host>>

\* mutant: the next slice starts one byte late
WriteSucceeded_SkipsByte ==
    /\ stream.pc = "writing"
    /\ LET isLastChunk == stream.offset + ChunkSize >= stream.size IN
       IF isLastChunk
       THEN stream' = [stream EXCEPT !.pc = "ended", !.ends = @ + 1]
       ELSE stream' = [stream EXCEPT
                          !.offset = @ + ChunkSize + 1,
                          !.writes = Append(@, Slice(stream.size,
                                                     stream.offset + ChunkSize + 1))]
    /\ UNCHANGED <<card, share, rev, lrev, urev, videos, req, users, host>>

\* the write callback is called without an error: end() after the last chunk,
\* otherwise offset += chunkSize and writeChunk() again
WriteSucceeded ==
    /\ stream.pc = "writing"
    /\ LET isLastChunk == stream.offset + ChunkSize >= stream.size IN
       IF isLastChunk
       THEN stream' = [stream EXCEPT !.pc = "ended", !.ends = @ + 1]
       ELSE stream' = [stream EXCEPT
                          !.offset = @ + ChunkSize,
                          !.writes = Append(@, Slice(stream.size,
                                                     stream.offset + ChunkSize))]
    /\ UNCHANGED <<card, share, rev, lrev, urev, videos, req, users, host>>

\* the write callback is called with an error: return reject(err)
WriteFailed ==
    /\ stream.pc = "writing"
    /\ stream' = [stream EXCEPT !.pc = "rejected"]
    /\ UNCHANGED <<card, share, rev, lrev, urev, videos, req, users, host>>

\* the request is over; the next one opens a new stream
CloseStream ==
    /\ stream.pc \in {"ended", "rejected"}
    /\ stream' = StreamIdle
    /\ UNCHANGED <<card, share, rev, lrev, urev, videos, req, users, host>>

NextStream == OpenStream \/ WriteSucceeded \/ WriteFailed \/ CloseStream

SpecStream == InitStream /\ [][NextStream]_vars

\* the stream calls back every write it was given
SpecStreamFair == SpecStream /\ WF_vars(WriteSucceeded \/ WriteFailed)

\* slices i and i+1 of the writes so far are adjacent
Consecutive(ws) ==
    /\ ws # <<>> => ws[1].from = 0
    /\ \A i \in 1..Len(ws) :
          /\ ws[i].from <= ws[i].to
          /\ ws[i].to - ws[i].from <= ChunkSize
          /\ i < Len(ws) => (ws[i + 1].from = ws[i].to /\ ws[i].from < ws[i + 1].from)

\* C25: writeChunk terminates for every buffer length: it writes
\* consecutive, non-overlapping slices of at most 5,000,000 bytes in increasing
\* offset order that together are the buffer, one write at a time, calls
\* end() exactly once after the last slice's write succeeded, and writes
\* nothing after a write error.
C25_WriteChunkTerminates ==
    /\ [](stream.pc # "idle" =>
            /\ Consecutive(stream.writes)
            /\ Len(stream.writes) = stream.offset \div ChunkSize + 1
            /\ stream.writes[Len(stream.writes)].to <= stream.size
            /\ stream.ends = IF stream.pc = "ended" THEN 1 ELSE 0
            /\ stream.pc = "ended"
                  => stream.writes[Len(stream.writes)].to = stream.size)
    /\ [][/\ (stream.pc = "rejected" /\ stream'.pc # "idle")
                => stream'.writes = stream.writes
          /\ (stream.pc = "writing" /\ stream'.ends > stream.ends)
                => stream'.writes = stream.writes]_vars
    /\ (stream.pc = "writing" ~> stream.pc \in {"ended", "rejected"})

\* a buffer of exactly two chunks was written in two slices and ended
C25_Witness ==
    /\ stream.pc = "ended"
    /\ stream.size = 2 * ChunkSize
    /\ stream.writes = <<[from |-> 0, to |-> ChunkSize],
                         [from |-> ChunkSize, to |-> 2 * ChunkSize]>>
    /\ stream.ends = 1

C26_WebhookClassification ==
    [][\A r \in ApiReqs :
         (IsWebhook(r) /\ JustHandled(r)) =>
            LET p == WebhookPayloads[req'[r].payload]
                isObject == p.parses /\ p.json = "object"
            IN
            /\ req'[r].pc = "handled"
            /\ videos' = videos /\ users' = users
            /\ ~p.parses => req'[r].response.status = 500
            /\ (p.parses /\ (~isObject \/ p.ntype # "string"))
                  => req'[r].response.status = 400
            /\ (isObject /\ p.ntype = "string")
                  => req'[r].response = JsonResponse(200, "", <<>>)]_vars

\* a notification of an unknown type was answered {success: true}
C26_Witness ==
    \E r \in ApiReqs :
        /\ req[r].pc = "handled"
        /\ IsWebhook(r)
        /\ req[r].payload = "upload"
        /\ req[r].response = JsonResponse(200, "", <<>>)
        /\ videos = SampleVideos

(* ------------------------------------------------------------------ *)
(* VideoCard.handleDelete                                               *)
(* ------------------------------------------------------------------ *)

\* how the fetch of a DELETE request settles: res.ok, !res.ok, or a rejection
FetchAnswers == {"ok", "notOk", "networkError"}

InitCard ==
    /\ rev = "middleware_1"
    /\ lrev = "videos_route"
    /\ urev = "video_upload_route"
    /\ videos = SampleVideos
    /\ req = [r \in ApiReqs |-> Idle]
    /\ users = Users
    /\ host = {}
    /\ stream = StreamIdle
    /\ card \in [crev : CardRevs, cards : {[id \in CardIds |-> CardIdle]}]
    /\ share = ShareIdle

\* the Delete button, disabled while isDeleting, is clicked: handleDelete runs
\* up to `await fetch(...)`
ClickDelete(id) ==
    /\ ~card.cards[id].isDeleting
    /\ card' = [card EXCEPT !.cards[id] =
                   [CardIdle EXCEPT !.pc = "fetching", !.isDeleting = TRUE]]
    /\ UNCHANGED <<stream, share, rev, lrev, urev, videos, req, users, host>>

\* src/unnamed/part_003: the rest of handleDelete once the fetch has settled
SettledPart003(c, answer) ==
    [pc |-> "idle", isDeleting |-> FALSE, answer |-> answer,
     removed |-> answer = "ok", refreshed |-> answer = "ok",
     alerted |-> answer # "ok"]

\* src/components/VideoCard.tsx: the rest of handleDelete once the fetch has
\* settled; the response is not inspected and onRemoved is not a prop
SettledVideoCardTsx(c, answer) ==
    [pc |-> "idle", isDeleting |-> FALSE, answer |-> answer,
     removed |-> FALSE, refreshed |-> answer # "networkError",
     alerted |-> answer = "networkError"]

\* the fetch settles and handleDelete runs to its end, finally included
FetchSettled(id) ==
    /\ card.cards[id].pc = "fetching"
    /\ \E answer \in FetchAnswers :
          card' = [card EXCEPT !.cards[id] =
                      IF card.crev = "part_003"
                      THEN SettledPart003(card.cards[id], answer)
                      ELSE SettledVideoCardTsx(card.cards[id], answer)]
    /\ UNCHANGED <<stream, share, rev, lrev, urev, videos, req, users, host>>

NextCard == \E id \in CardIds : ClickDelete(id) \/ FetchSettled(id)

SpecCard == InitCard /\ [][NextCard]_vars

\* C27: a card reports its video gone (onRemoved, router.refresh) only after
\* the DELETE was answered with an OK status; after a non-OK answer or a
\* network failure nothing is reported; isDeleting is true from the click
\* until the request has settled and false afterwards.
C27_ReportOnlyAfterOk ==
    \A id \in CardIds :
        LET c == card.cards[id] IN
        /\ (c.removed \/ c.refreshed) => c.answer = "ok"
        /\ c.isDeleting <=> c.pc = "fetching"

(* ------------------------------------------------------------------ *)
(* SocialShare (src/unnamed/part_008)                                   *)
(* ------------------------------------------------------------------ *)

\* number of images uploaded in one visit of the page
MaxImages == 5

InitShare ==
    /\ rev = "middleware_1"
    /\ lrev = "videos_route"
    /\ urev = "video_upload_route"
    /\ videos = SampleVideos
    /\ req = [r \in ApiReqs |-> Idle]
    /\ users = Users
    /\ host = {}
    /\ ClientIdle

\* the useEffect on [selectedFormat, uploadedImage], run after a render in
\* which either changed; the new key remounts the transformed <Image>
TransformEffect(sh) ==
    IF sh.uploadedImage # 0
    THEN [sh EXCEPT !.isTransforming = TRUE,
                    !.transformedUrl = [image |-> sh.uploadedImage,
                                        format |-> sh.selectedFormat],
                    !.img = "loading"]
    ELSE sh

\* a file is chosen in the input, which is disabled while isUploading:
\* handleUploadFile up to `await fetch(...)`
PickFile ==
    /\ ~share.isUploading
    /\ share.uploadedImage < MaxImages
    /\ share' = [share EXCEPT !.isUploading = TRUE]
    /\ UNCHANGED <<stream, card, rev, lrev, urev, videos, req, users, host>>

\* the upload answered OK: setUploadedImage(data), finally setIsUploading(false)
UploadSucceeded ==
    /\ share.isUploading
    /\ share' = TransformEffect([share EXCEPT !.uploadedImage = @ + 1,
                                              !.isUploading = FALSE])
    /\ UNCHANGED <<stream, card, rev, lrev, urev, videos, req, users, host>>

\* the upload failed: alert, finally setIsUploading(false)
UploadFailed ==
    /\ share.isUploading
    /\ share' = [share EXCEPT !.isUploading = FALSE]
    /\ UNCHANGED <<stream, card, rev, lrev, urev, videos, req, users, host>>

\* another format is chosen in the select, rendered once an image is uploaded
SelectFormat ==
    /\ share.uploadedImage # 0
    /\ \E f \in SocialFormats \ {share.selectedFormat} :
          share' = TransformEffect([share EXCEPT !.selectedFormat = f])
    /\ UNCHANGED <<stream, card, rev, lrev, urev, videos, req, users, host>>

\* the transformed image loads: onLoad={() => setIsTransforming(false)}
ImageLoaded ==
    /\ share.img = "loading"
    /\ share' = [share EXCEPT !.img = "loaded", !.isTransforming = FALSE]
    /\ UNCHANGED <<stream, card, rev, lrev, urev, videos, req, users, host>>

\* the transformed image fails to load: the <Image> has no onError handler
ImageFailed ==
    /\ share.img = "loading"
    /\ share' = [share EXCEPT !.img = "error"]
    /\ UNCHANGED <<stream, card, rev, lrev, urev, videos, req, users, host>>

NextShare ==
    \/ PickFile
    \/ UploadSucceeded
    \/ UploadFailed
    \/ SelectFormat
    \/ ImageLoaded
    \/ ImageFailed

SpecShare == InitShare /\ [][NextShare]_vars

\* the browser settles every image load and every fetch
SpecShareFair ==
    /\ SpecShare
    /\ WF_vars(ImageLoaded \/ ImageFailed)
    /\ WF_vars(UploadSucceeded \/ UploadFailed)

\* C28: whenever isTransforming is set to true it is eventually set back to
\* false (and with it the Download button, disabled while isTransforming, is
\* enabled again).
C28_TransformingEnds == share.isTransforming ~> ~share.isTransforming

====
